---------------------------- MODULE Spec2Model ----------------------------
(***************************************************************************)
(* The inference table of chalk's solver (src/solve/infer/mod.rs): two     *)
(* union-find stores (ena::UnificationTable) with their creation-order     *)
(* lists, the snapshot / rollback_to / commit / commit_if_ok transaction   *)
(* protocol, shallow normalization, probing, and                           *)
(* Substitution::is_trivial_within.                                        *)
(*                                                                         *)
(* Keys, depths and universes are the 0-based integers of the source; the  *)
(* sequences of TLA+ are 1-based, so key k lives at values[k + 1].         *)
(***************************************************************************)
EXTENDS Integers, Sequences, FiniteSets, TLC

(***************************************************************************)
(* Bounds of the model.  A behaviour follows one caller:                   *)
(*   Nest      nests snapshots over two type variables and a lifetime      *)
(*             variable of the root universe;                              *)
(*   Deep      creates enough type variables for the union-find store to   *)
(*             grow paths that a lookup compresses;                        *)
(*   Scoped    creates its variables in several universes and unifies them *)
(*             with placeholders of several universes;                     *)
(*   Asking    binds variables and asks the table about terms and          *)
(*             substitutions.                                              *)
(***************************************************************************)
NestTyVars == 2         \* type variables alive at once
NestLtVars == 1         \* lifetime variables alive at once
NestOpen == 2           \* snapshots open at once
NestLog == 4            \* entries of one store's undo log
DeepTyVars == 4
DeepOpen == 1
DeepLog == 3
ScopedTyVars == 1
ScopedLtVars == 1
ScopedVarUniverse == 1  \* variables are created in universes 0 .. this
ScopedUniverse == 2     \* placeholders live in universes up to this
ScopedOpen == 1
ScopedLog == 3
AskingTyVars == 2
AskingLtVars == 1
AskingOpen == 1
AskingLog == 2
ForkingTyVars == 2
ForkingLtVars == 1
ForkingOpen == 1
ForkingLog == 2
MaxBinders == 2         \* binder counts handed to normalize_shallow
MaxSubstTys == 2        \* type entries of a substitution
MaxSubstLifetimes == 1  \* lifetime entries of a substitution

Nest == [name |-> "Nest", ty_vars |-> NestTyVars, lifetime_vars |-> NestLtVars,
         var_universe |-> 0, universe |-> 0, lists |-> TRUE,
         ty_placeholders |-> FALSE, open |-> NestOpen, log |-> NestLog]
Deep == [name |-> "Deep", ty_vars |-> DeepTyVars, lifetime_vars |-> 0,
         var_universe |-> 0, universe |-> 0, lists |-> FALSE,
         ty_placeholders |-> TRUE, open |-> DeepOpen, log |-> DeepLog]
Scoped == [name |-> "Scoped", ty_vars |-> ScopedTyVars, lifetime_vars |-> ScopedLtVars,
           var_universe |-> ScopedVarUniverse, universe |-> ScopedUniverse,
           lists |-> TRUE, ty_placeholders |-> TRUE,
           open |-> ScopedOpen, log |-> ScopedLog]
Asking == [name |-> "Asking", ty_vars |-> AskingTyVars, lifetime_vars |-> AskingLtVars,
           var_universe |-> 0, universe |-> 0, lists |-> TRUE,
           ty_placeholders |-> TRUE, open |-> AskingOpen, log |-> AskingLog]
Forking == [name |-> "Forking", ty_vars |-> ForkingTyVars,
            lifetime_vars |-> ForkingLtVars, var_universe |-> 0, universe |-> 0,
            lists |-> FALSE, ty_placeholders |-> TRUE,
            open |-> ForkingOpen, log |-> ForkingLog]

(***************************************************************************)
(* Option<T>, and the panic of an out-of-range index.                      *)
(***************************************************************************)
None == [some |-> FALSE]
Some(x) == [some |-> TRUE, val |-> x]
Panic == [panic |-> TRUE]
\* A value returned by an operation that can panic instead.
Value(x) == [value |-> x]

\* Result<T>
Ok(v) == [ok |-> TRUE, val |-> v]
Err(e) == [ok |-> FALSE, err |-> e]

(***************************************************************************)
(* Terms.  Ty::Var(depth), Ty::Apply with one argument (List<_>), and the  *)
(* placeholder type of a universe (an Apply of TypeName::ForAll(ui)).      *)
(* Lifetime::Var(depth) and Lifetime::ForAll(ui).                          *)
(***************************************************************************)
TyVar(d) == [tag |-> "Var", n |-> d, args |-> <<>>]
TyForAll(ui) == [tag |-> "ForAll", n |-> ui, args |-> <<>>]
TyList(t) == [tag |-> "List", n |-> 0, args |-> <<t>>]

LifetimeVar(d) == [tag |-> "Var", n |-> d]
LifetimeForAll(ui) == [tag |-> "ForAll", n |-> ui]

\* Ty::var: Some(depth) for a Ty::Var(depth), else None.
Ty_var(ty) == IF ty.tag = "Var" THEN Some(ty.n) ELSE None

\* Lifetime::var
Lifetime_var(lt) == IF lt.tag = "Var" THEN Some(lt.n) ELSE None

\* TyInferenceVariable::from_depth / LifetimeInferenceVariable::from_depth:
\* the key whose index is the depth.
from_depth(d) == d

\* Ty::inference_var / Lifetime::inference_var
Ty_inference_var(ty) ==
    IF Ty_var(ty).some THEN Some(from_depth(Ty_var(ty).val)) ELSE None

Lifetime_inference_var(lt) ==
    IF Lifetime_var(lt).some THEN Some(from_depth(Lifetime_var(lt).val)) ELSE None

\* Ty::up_shift(adjustment): every free variable of the term moves up by
\* the adjustment; placeholders name no binder and stay.
RECURSIVE up_shift(_, _)
up_shift(ty, adjustment) ==
    CASE ty.tag = "Var" -> TyVar(ty.n + adjustment)
      [] ty.tag = "ForAll" -> ty
      [] OTHER -> [ty EXCEPT !.args = [i \in DOMAIN ty.args |->
                                          up_shift(ty.args[i], adjustment)]]

(***************************************************************************)
(* InferenceValue<T>                                                       *)
(***************************************************************************)
Unbound(ui) == [bound |-> FALSE, ui |-> ui]
Bound(val) == [bound |-> TRUE, val |-> val]

(***************************************************************************)
(* ena::snapshot_vec::SnapshotVec: a vector and its undo log.  A change is *)
(* logged only while a snapshot is open (the log is not empty).            *)
(***************************************************************************)
OpenSnapshot == [op |-> "OpenSnapshot"]
CommittedSnapshot == [op |-> "CommittedSnapshot"]
NewElem(i) == [op |-> "NewElem", i |-> i]
SetElem(i, old) == [op |-> "SetElem", i |-> i, old |-> old]

UnificationTable_new == [values |-> <<>>, undo_log |-> <<>>]

in_snapshot(s) == s.undo_log # <<>>

\* SnapshotVec::push
sv_push(s, elem) ==
    [values |-> Append(s.values, elem),
     undo_log |-> IF in_snapshot(s)
                  THEN Append(s.undo_log, NewElem(Len(s.values)))
                  ELSE s.undo_log]

\* SnapshotVec::set
sv_set(s, index, elem) ==
    [values |-> [s.values EXCEPT ![index + 1] = elem],
     undo_log |-> IF in_snapshot(s)
                  THEN Append(s.undo_log, SetElem(index, s.values[index + 1]))
                  ELSE s.undo_log]

\* SnapshotVec::start_snapshot: the snapshot is the log position of its
\* OpenSnapshot entry.
sv_start_snapshot(s) ==
    [store |-> [s EXCEPT !.undo_log = Append(s.undo_log, OpenSnapshot)],
     snapshot |-> [length |-> Len(s.undo_log)]]

\* One entry of the log undone.
sv_reverse(values, entry) ==
    CASE entry.op = "NewElem" -> SubSeq(values, 1, Len(values) - 1)
      [] entry.op = "SetElem" -> [values EXCEPT ![entry.i + 1] = entry.old]
      [] OTHER -> values

\* SnapshotVec::rollback_to: pop and undo every entry above the snapshot's
\* OpenSnapshot, then pop that entry.
RECURSIVE sv_rollback_to(_, _)
sv_rollback_to(s, snapshot) ==
    IF Len(s.undo_log) > snapshot.length + 1
    THEN sv_rollback_to(
             [values |-> sv_reverse(s.values, s.undo_log[Len(s.undo_log)]),
              undo_log |-> SubSeq(s.undo_log, 1, Len(s.undo_log) - 1)],
             snapshot)
    ELSE [s EXCEPT !.undo_log = SubSeq(s.undo_log, 1, snapshot.length)]

\* SnapshotVec::commit: the root snapshot drops the log, a nested one
\* leaves a CommittedSnapshot in its place.
sv_commit(s, snapshot) ==
    IF snapshot.length = 0
    THEN [s EXCEPT !.undo_log = <<>>]
    ELSE [s EXCEPT !.undo_log[snapshot.length + 1] = CommittedSnapshot]

(***************************************************************************)
(* ena::unify::UnificationTable over the snapshot vector.                  *)
(***************************************************************************)
VarValue(parent, value, rank) == [parent |-> parent, value |-> value, rank |-> rank]

\* UnificationTable::len
ut_len(s) == Len(s.values)

\* UnificationTable::new_key
ut_new_key(s, value) ==
    [store |-> sv_push(s, VarValue(ut_len(s), value, 0)), key |-> ut_len(s)]

\* The root of a key, read without touching the store.
RECURSIVE ut_root(_, _)
ut_root(s, key) ==
    IF s.values[key + 1].parent = key THEN key
    ELSE ut_root(s, s.values[key + 1].parent)

\* A get whose compression makes the key its own parent.
ut_get_self_parent(s, key) ==
    LET root == ut_root(s, key) IN
    IF s.values[key + 1].parent = root THEN [store |-> s, root |-> root]
    ELSE [store |-> sv_set(s, key, [s.values[key + 1] EXCEPT !.parent = key]),
          root |-> root]

\* UnificationTable::get: find the root, compressing the path behind it.
RECURSIVE ut_get(_, _)
ut_get(s, key) ==
    LET redirect == s.values[key + 1].parent IN
    IF redirect = key THEN [store |-> s, root |-> key]
    ELSE LET r == ut_get(s, redirect) IN
         IF r.root # redirect
         THEN [store |-> sv_set(r.store, key,
                                [r.store.values[key + 1] EXCEPT !.parent = r.root]),
               root |-> r.root]
         ELSE r

\* UnificationTable::probe_value
ut_probe_value(s, key) ==
    LET r == ut_get(s, key) IN
    [store |-> r.store, value |-> r.store.values[r.root + 1].value]

\* UnificationTable::snapshot / rollback_to / commit
ut_snapshot(s) == sv_start_snapshot(s)

ut_rollback_to(s, snapshot) == sv_rollback_to(s, snapshot)

ut_commit(s, snapshot) == sv_commit(s, snapshot)


(***************************************************************************)
(* InferenceTable                                                          *)
(***************************************************************************)
\* InferenceTable::new
InferenceTable_new ==
    [ty_unify |-> UnificationTable_new, ty_vars |-> <<>>,
     lifetime_unify |-> UnificationTable_new, lifetime_vars |-> <<>>]

\* A clone that hands out a second handle on the storage of the table.
clone_sharing(t) == [own |-> FALSE, table |-> t]

\* InferenceTable::clone (derived): a table with storage of its own, each
\* field a copy of the field of t.
clone(t) ==
    [own |-> TRUE,
     table |-> [ty_unify |-> t.ty_unify, ty_vars |-> t.ty_vars,
                lifetime_unify |-> t.lifetime_unify,
                lifetime_vars |-> t.lifetime_vars]]

\* A new_variable that forgets to record the key in the list.
new_variable_no_push(t, ui) ==
    LET r == ut_new_key(t.ty_unify, Unbound(ui)) IN
    [table |-> [t EXCEPT !.ty_unify = r.store], var |-> r.key]

\* A new_variable that creates the variable one universe too far out.
new_variable_next_universe(t, ui) ==
    LET r == ut_new_key(t.ty_unify, Unbound(ui + 1)) IN
    [table |-> [t EXCEPT !.ty_unify = r.store,
                         !.ty_vars = Append(t.ty_vars, r.key)],
     var |-> r.key]

\* A new_variable that records the key at the front of the list.
new_variable_push_front(t, ui) ==
    LET r == ut_new_key(t.ty_unify, Unbound(ui)) IN
    [table |-> [t EXCEPT !.ty_unify = r.store,
                         !.ty_vars = <<r.key>> \o t.ty_vars],
     var |-> r.key]

\* InferenceTable::new_variable
new_variable(t, ui) ==
    LET r == ut_new_key(t.ty_unify, Unbound(ui)) IN
    [table |-> [t EXCEPT !.ty_unify = r.store,
                         !.ty_vars = Append(t.ty_vars, r.key)],
     var |-> r.key]

\* A new_lifetime_variable that forgets to record the key in the list.
new_lifetime_variable_no_push(t, ui) ==
    LET r == ut_new_key(t.lifetime_unify, Unbound(ui)) IN
    [table |-> [t EXCEPT !.lifetime_unify = r.store], var |-> r.key]

\* InferenceTable::new_lifetime_variable
new_lifetime_variable(t, ui) ==
    LET r == ut_new_key(t.lifetime_unify, Unbound(ui)) IN
    [table |-> [t EXCEPT !.lifetime_unify = r.store,
                         !.lifetime_vars = Append(t.lifetime_vars, r.key)],
     var |-> r.key]

\* ParameterKind::Ty / ParameterKind::Lifetime
ParameterKind(kind, x) == [kind |-> kind, val |-> x]

\* A new_parameter_variable that makes a type variable whatever was asked.
new_parameter_variable_as_ty(t, ui) ==
    LET r == new_variable(t, ui.val) IN
    [table |-> r.table, var |-> ParameterKind("Ty", r.var)]

\* InferenceTable::new_parameter_variable
new_parameter_variable(t, ui) ==
    IF ui.kind = "Ty"
    THEN LET r == new_variable(t, ui.val) IN
         [table |-> r.table, var |-> ParameterKind("Ty", r.var)]
    ELSE LET r == new_lifetime_variable(t, ui.val) IN
         [table |-> r.table, var |-> ParameterKind("Lifetime", r.var)]

\* InferenceTable::ty_vars / lifetime_vars
ty_vars(t) == t.ty_vars

lifetime_vars(t) == t.lifetime_vars

\* A snapshot that captures fresh lists instead of copies of the table's.
snapshot_empty_vars(t) ==
    LET ty == ut_snapshot(t.ty_unify)
        lt == ut_snapshot(t.lifetime_unify) IN
    [table |-> [t EXCEPT !.ty_unify = ty.store, !.lifetime_unify = lt.store],
     snapshot |-> [ty_unify_snapshot |-> ty.snapshot,
                   lifetime_unify_snapshot |-> lt.snapshot,
                   ty_vars |-> <<>>,
                   lifetime_vars |-> <<>>]]

\* InferenceTable::snapshot
snapshot(t) ==
    LET ty == ut_snapshot(t.ty_unify)
        lt == ut_snapshot(t.lifetime_unify) IN
    [table |-> [t EXCEPT !.ty_unify = ty.store, !.lifetime_unify = lt.store],
     snapshot |-> [ty_unify_snapshot |-> ty.snapshot,
                   lifetime_unify_snapshot |-> lt.snapshot,
                   ty_vars |-> t.ty_vars,
                   lifetime_vars |-> t.lifetime_vars]]

\* A rollback_to that restores the stores and leaves the lists as they are.
rollback_to_unify_only(t, snap) ==
    [t EXCEPT !.ty_unify = ut_rollback_to(t.ty_unify, snap.ty_unify_snapshot),
              !.lifetime_unify =
                  ut_rollback_to(t.lifetime_unify, snap.lifetime_unify_snapshot)]

\* A rollback_to that restores the lists and leaves the stores as they are.
rollback_to_vars_only(t, snap) ==
    [t EXCEPT !.ty_vars = snap.ty_vars, !.lifetime_vars = snap.lifetime_vars]

\* InferenceTable::rollback_to
rollback_to(t, snap) ==
    [ty_unify |-> ut_rollback_to(t.ty_unify, snap.ty_unify_snapshot),
     lifetime_unify |-> ut_rollback_to(t.lifetime_unify, snap.lifetime_unify_snapshot),
     ty_vars |-> snap.ty_vars,
     lifetime_vars |-> snap.lifetime_vars]

\* A commit that also puts the captured lists back, as rollback_to does.
commit_restoring_vars(t, snap) ==
    [ty_unify |-> ut_commit(t.ty_unify, snap.ty_unify_snapshot),
     lifetime_unify |-> ut_commit(t.lifetime_unify, snap.lifetime_unify_snapshot),
     ty_vars |-> snap.ty_vars,
     lifetime_vars |-> snap.lifetime_vars]

\* A commit that drops the undo logs even when an earlier snapshot is open.
commit_dropping_log(t, snap) ==
    [t EXCEPT !.ty_unify.undo_log = <<>>, !.lifetime_unify.undo_log = <<>>]

\* InferenceTable::commit
commit(t, snap) ==
    [t EXCEPT !.ty_unify = ut_commit(t.ty_unify, snap.ty_unify_snapshot),
              !.lifetime_unify = ut_commit(t.lifetime_unify, snap.lifetime_unify_snapshot)]

\* A commit_if_ok that commits whatever op returned.
commit_if_ok_always_commit(t, snap, result) ==
    [table |-> commit(t, snap),
     ret |-> IF result.ok THEN Ok(result.val) ELSE Err(result.err)]

\* A commit_if_ok that rolls back whatever op returned.
commit_if_ok_always_rollback(t, snap, result) ==
    [table |-> rollback_to(t, snap),
     ret |-> IF result.ok THEN Ok(result.val) ELSE Err(result.err)]

\* A commit_if_ok that hands an error on without rolling back.
commit_if_ok_err_unconsumed(t, snap, result) ==
    IF result.ok
    THEN [table |-> commit(t, snap), ret |-> Ok(result.val)]
    ELSE [table |-> t, ret |-> Err(result.err)]

\* InferenceTable::commit_if_ok, from the point where op has returned
\* result on the table t: Ok commits the snapshot taken before op ran, Err
\* rolls back to it, and the result is handed on.
commit_if_ok(t, snap, result) ==
    IF result.ok
    THEN [table |-> commit(t, snap), ret |-> Ok(result.val)]
    ELSE [table |-> rollback_to(t, snap), ret |-> Err(result.err)]

\* InferenceTable::probe_var.  A key the store does not hold is an index out
\* of bounds.
probe_var(t, var) ==
    IF var >= ut_len(t.ty_unify) THEN [table |-> t, ret |-> Panic]
    ELSE LET r == ut_probe_value(t.ty_unify, var) IN
         [table |-> [t EXCEPT !.ty_unify = r.store],
          ret |-> IF r.value.bound THEN Some(r.value.val) ELSE None]

\* InferenceTable::probe_lifetime_var
probe_lifetime_var(t, var) ==
    IF var >= ut_len(t.lifetime_unify) THEN [table |-> t, ret |-> Panic]
    ELSE LET r == ut_probe_value(t.lifetime_unify, var) IN
         [table |-> [t EXCEPT !.lifetime_unify = r.store],
          ret |-> IF r.value.bound THEN Some(r.value.val) ELSE None]

\* A normalize_shallow that hands out the bound value as it is stored.
normalize_shallow_no_shift(t, leaf, binders) ==
    LET depth == Ty_var(leaf) IN
    IF ~depth.some THEN [table |-> t, ret |-> None]
    ELSE IF depth.val < binders THEN [table |-> t, ret |-> None]
    ELSE LET var == from_depth(depth.val - binders) IN
         IF var >= ut_len(t.ty_unify) THEN [table |-> t, ret |-> Panic]
         ELSE LET r == ut_probe_value(t.ty_unify, var) IN
              [table |-> [t EXCEPT !.ty_unify = r.store],
               ret |-> IF r.value.bound THEN Some(r.value.val) ELSE None]

\* A normalize_shallow without the threshold: every variable leaf is looked
\* up, at the index its depth gives.
normalize_shallow_no_threshold(t, leaf, binders) ==
    LET depth == Ty_var(leaf) IN
    IF ~depth.some THEN [table |-> t, ret |-> None]
    ELSE LET var == from_depth(IF depth.val < binders THEN depth.val
                               ELSE depth.val - binders) IN
         IF var >= ut_len(t.ty_unify) THEN [table |-> t, ret |-> Panic]
         ELSE LET r == ut_probe_value(t.ty_unify, var) IN
              [table |-> [t EXCEPT !.ty_unify = r.store],
               ret |-> IF r.value.bound
                       THEN Some(up_shift(r.value.val, binders))
                       ELSE None]

\* A normalize_shallow that shifts the bound value one binder too far.
normalize_shallow_shift_extra(t, leaf, binders) ==
    LET depth == Ty_var(leaf) IN
    IF ~depth.some THEN [table |-> t, ret |-> None]
    ELSE IF depth.val < binders THEN [table |-> t, ret |-> None]
    ELSE LET var == from_depth(depth.val - binders) IN
         IF var >= ut_len(t.ty_unify) THEN [table |-> t, ret |-> Panic]
         ELSE LET r == ut_probe_value(t.ty_unify, var) IN
              [table |-> [t EXCEPT !.ty_unify = r.store],
               ret |-> IF r.value.bound
                       THEN Some(up_shift(r.value.val, binders + 1))
                       ELSE None]

\* InferenceTable::normalize_shallow
normalize_shallow(t, leaf, binders) ==
    LET depth == Ty_var(leaf) IN
    IF ~depth.some THEN [table |-> t, ret |-> None]
    ELSE IF depth.val < binders THEN [table |-> t, ret |-> None]
    ELSE LET var == from_depth(depth.val - binders) IN
         IF var >= ut_len(t.ty_unify) THEN [table |-> t, ret |-> Panic]
         ELSE LET r == ut_probe_value(t.ty_unify, var) IN
              [table |-> [t EXCEPT !.ty_unify = r.store],
               ret |-> IF r.value.bound
                       THEN Some(up_shift(r.value.val, binders))
                       ELSE None]

\* InferenceTable::normalize_lifetime
normalize_lifetime(t, leaf) ==
    IF leaf.tag = "Var"
    THEN probe_lifetime_var(t, from_depth(leaf.n))
    ELSE [table |-> t, ret |-> None]

(***************************************************************************)
(* Substitution: tys and lifetimes, the values in key order.               *)
(***************************************************************************)
\* The loop over self.tys.values(), from entry i on.
RECURSIVE trivial_tys(_, _, _)
trivial_tys(tys, i, t) ==
    IF i > Len(tys) THEN [table |-> t, ret |-> Value(TRUE)]
    ELSE LET var == Ty_inference_var(tys[i]) IN
         IF ~var.some THEN trivial_tys(tys, i + 1, t)
         ELSE LET p == probe_var(t, var.val) IN
              IF p.ret = Panic THEN [table |-> p.table, ret |-> Panic]
              ELSE IF p.ret.some THEN [table |-> p.table, ret |-> Value(FALSE)]
              ELSE trivial_tys(tys, i + 1, p.table)

\* The loop over self.lifetimes.values(), from entry i on.
RECURSIVE trivial_lifetimes(_, _, _)
trivial_lifetimes(lts, i, t) ==
    IF i > Len(lts) THEN [table |-> t, ret |-> Value(TRUE)]
    ELSE LET var == Lifetime_inference_var(lts[i]) IN
         IF ~var.some THEN trivial_lifetimes(lts, i + 1, t)
         ELSE LET p == probe_lifetime_var(t, var.val) IN
              IF p.ret = Panic THEN [table |-> p.table, ret |-> Panic]
              ELSE IF p.ret.some THEN [table |-> p.table, ret |-> Value(FALSE)]
              ELSE trivial_lifetimes(lts, i + 1, p.table)

\* An is_trivial_within that looks at the types only.
is_trivial_within_tys_only(subst, in_infer) ==
    trivial_tys(subst.tys, 1, in_infer)

\* Substitution::is_trivial_within
is_trivial_within(subst, in_infer) ==
    LET a == trivial_tys(subst.tys, 1, in_infer) IN
    IF a.ret # Value(TRUE) THEN a
    ELSE trivial_lifetimes(subst.lifetimes, 1, a.table)

(***************************************************************************)
(* Unification (the unify and var modules), which is what binds variables. *)
(***************************************************************************)
Min(a, b) == IF a <= b THEN a ELSE b

\* UnifyValue for InferenceValue: two unbound values meet in the more
\* restrictive universe, a bound value wins over an unbound one.
unify_values(a, b) ==
    IF ~a.bound /\ ~b.bound THEN Unbound(Min(a.ui, b.ui))
    ELSE IF a.bound THEN a ELSE b

\* UnificationTable::unify_var_var: union by rank of the two roots.
ut_unify_var_var(s, a_id, b_id) ==
    LET ra == ut_get(s, a_id)
        rb == ut_get(ra.store, b_id)
        st == rb.store
        a == st.values[ra.root + 1]
        b == st.values[rb.root + 1]
        combined == unify_values(a.value, b.value)
        redirect(old, new, rank) ==
            sv_set(sv_set(st, old, [st.values[old + 1] EXCEPT !.parent = new]),
                   new, VarValue(new, combined, rank))
    IN  IF ra.root = rb.root THEN st
        ELSE IF a.rank > b.rank THEN redirect(rb.root, ra.root, a.rank)
        ELSE IF a.rank < b.rank THEN redirect(ra.root, rb.root, b.rank)
        ELSE redirect(ra.root, rb.root, a.rank + 1)

\* UnificationTable::unify_var_value: the root of the key takes the value.
ut_unify_var_value(s, a_id, b) ==
    LET ra == ut_get(s, a_id)
        a == ra.store.values[ra.root + 1] IN
    sv_set(ra.store, ra.root, [a EXCEPT !.value = unify_values(a.value, b)])

\* The universe check of a binding, with the occurs check: every
\* placeholder and every unbound variable the term reaches must be visible
\* from universe_index, and the variable itself must not be reached.
RECURSIVE occurs_check(_, _, _, _)
occurs_check(s, var, universe_index, ty) ==
    CASE ty.tag = "ForAll" ->
            IF universe_index < ty.n THEN Err("universe") ELSE Ok(ty)
      [] ty.tag = "Var" ->
            LET root == ut_root(s, from_depth(ty.n))
                value == s.values[root + 1].value IN
            IF value.bound
            THEN LET r == occurs_check(s, var, universe_index, value.val) IN
                 IF r.ok THEN Ok(ty) ELSE r
            ELSE IF root = ut_root(s, var) THEN Err("cycle")
            ELSE IF universe_index < value.ui THEN Err("universe")
            ELSE Ok(ty)
      [] OTHER ->
            LET r == occurs_check(s, var, universe_index, ty.args[1]) IN
            IF r.ok THEN Ok(ty) ELSE r

\* Unifier::unify_var_ty: bind an unbound variable to a term that passes
\* the universe check.
unify_var_ty(t, var, ty) ==
    LET p == ut_probe_value(t.ty_unify, var)
        c == occurs_check(p.store, var, p.value.ui, ty) IN
    IF ~c.ok THEN [table |-> [t EXCEPT !.ty_unify = p.store], ret |-> c]
    ELSE [table |-> [t EXCEPT !.ty_unify =
                         ut_unify_var_value(p.store, var, Bound(ty))],
          ret |-> Ok("unified")]

\* Unifier::unify_ty_ty: both sides shallowly normalized first, then
\* variable against variable, variable against term, or constructor
\* against constructor.
RECURSIVE unify_ty_ty(_, _, _)
unify_ty_ty(t, a, b) ==
    LET na == normalize_shallow(t, a, 0)
        nb == normalize_shallow(na.table, b, 0)
        t1 == nb.table
        a1 == IF na.ret.some THEN na.ret.val ELSE a
        b1 == IF nb.ret.some THEN nb.ret.val ELSE b
    IN  CASE a1.tag = "Var" /\ b1.tag = "Var" ->
                [table |-> [t1 EXCEPT !.ty_unify =
                               ut_unify_var_var(t1.ty_unify, from_depth(a1.n),
                                                from_depth(b1.n))],
                 ret |-> Ok("unified")]
          [] a1.tag = "Var" /\ b1.tag # "Var" ->
                unify_var_ty(t1, from_depth(a1.n), b1)
          [] a1.tag # "Var" /\ b1.tag = "Var" ->
                unify_var_ty(t1, from_depth(b1.n), a1)
          [] a1.tag = "List" /\ b1.tag = "List" ->
                unify_ty_ty(t1, a1.args[1], b1.args[1])
          [] OTHER ->
                [table |-> t1,
                 ret |-> IF a1 = b1 THEN Ok("unified") ELSE Err("mismatch")]

\* Unifier::unify_lifetime_lifetime: lifetimes are atomic; a variable is
\* bound to a placeholder lifetime its universe can see.
unify_lifetime_lifetime(t, a, b) ==
    LET na == normalize_lifetime(t, a)
        nb == normalize_lifetime(na.table, b)
        t1 == nb.table
        a1 == IF na.ret.some THEN na.ret.val ELSE a
        b1 == IF nb.ret.some THEN nb.ret.val ELSE b
        bind(var, lt) ==
            LET p == ut_probe_value(t1.lifetime_unify, var) IN
            IF p.value.ui < lt.n
            THEN [table |-> [t1 EXCEPT !.lifetime_unify = p.store],
                  ret |-> Err("universe")]
            ELSE [table |-> [t1 EXCEPT !.lifetime_unify =
                                 ut_unify_var_value(p.store, var, Bound(lt))],
                  ret |-> Ok("unified")]
    IN  CASE a1.tag = "Var" /\ b1.tag = "Var" ->
                [table |-> [t1 EXCEPT !.lifetime_unify =
                               ut_unify_var_var(t1.lifetime_unify,
                                                from_depth(a1.n), from_depth(b1.n))],
                 ret |-> Ok("unified")]
          [] a1.tag = "Var" /\ b1.tag # "Var" -> bind(from_depth(a1.n), b1)
          [] a1.tag # "Var" /\ b1.tag = "Var" -> bind(from_depth(b1.n), a1)
          [] OTHER ->
                [table |-> t1,
                 ret |-> IF a1 = b1 THEN Ok("unified") ELSE Err("mismatch")]

(***************************************************************************)
(* What a caller can observe of a table: the two lists, the key counts,    *)
(* and for every key its probe result, the state of its class and the keys *)
(* unified with it.  Path compression changes none of these.               *)
(***************************************************************************)
Keys(s) == 0 .. ut_len(s) - 1

RootValue(s, k) == s.values[ut_root(s, k) + 1].value

Probe(s, k) == IF RootValue(s, k).bound THEN Some(RootValue(s, k).val) ELSE None

StoreObs(s) ==
    [k \in Keys(s) |->
        [probe |-> Probe(s, k),
         value |-> RootValue(s, k),
         class |-> {j \in Keys(s) : ut_root(s, j) = ut_root(s, k)}]]

Obs(t) ==
    [ty_vars |-> ty_vars(t),
     lifetime_vars |-> lifetime_vars(t),
     ty_keys |-> ut_len(t.ty_unify),
     lifetime_keys |-> ut_len(t.lifetime_unify),
     ty |-> StoreObs(t.ty_unify),
     lifetime |-> StoreObs(t.lifetime_unify)]

(***************************************************************************)
(* State.                                                                  *)
(*   table     the InferenceTable                                          *)
(*   frames    the open snapshots, innermost last; a frame of kind         *)
(*             "commit_if_ok" is a call of commit_if_ok whose op is        *)
(*             running                                                     *)
(*   hist      the last operation: its name, arguments, result, and the    *)
(*             table it was called on                                      *)
(*   live      per kind, the creations no rollback has discarded, in       *)
(*             order: the key returned and the universe asked for          *)
(*   returned  per kind, every key a creation has ever returned            *)
(*   plain     a second table given the same operations, except that it    *)
(*             never sees the outermost snapshot or its commit             *)
(*   limits    the caller of this behaviour                                *)
(*   fork      the clone of the table, once one was made: the table it     *)
(*             holds and the snapshots open on it                          *)
(***************************************************************************)
VARIABLES table, frames, hist, live, returned, plain, limits, fork

vars == <<table, frames, hist, live, returned, plain, limits, fork>>

\* No clone has been made.
NoFork == [forked |-> FALSE]

Hist(op, args, ret, pre) == [op |-> op, args |-> args, ret |-> ret, pre |-> pre]

Init ==
    /\ table = InferenceTable_new
    /\ frames = <<>>
    /\ hist = Hist("new", <<>>, None, InferenceTable_new)
    /\ live = [Ty |-> <<>>, Lifetime |-> <<>>]
    /\ returned = [Ty |-> {}, Lifetime |-> {}]
    /\ plain = InferenceTable_new
    /\ limits \in {Nest, Deep, Scoped}
    /\ fork = NoFork

\* The undo logs stay within the bound of the model.
Fits(t) ==
    /\ Len(t.ty_unify.undo_log) <= limits.log
    /\ Len(t.lifetime_unify.undo_log) <= limits.log

Top == frames[Len(frames)]

(***************************************************************************)
(* The inputs the operations are called with: universes, and terms of the  *)
(* table's frame, which name only variables the table holds.               *)
(***************************************************************************)
VarUniverses == 0 .. limits.var_universe
Universes == 0 .. limits.universe

TyVars == {TyVar(d) : d \in Keys(table.ty_unify)}
TyForAlls ==
    IF limits.ty_placeholders THEN {TyForAll(u) : u \in {0, limits.universe}} ELSE {}
TyLists == IF limits.lists THEN {TyList(l) : l \in TyVars \cup TyForAlls} ELSE {}
TyTerms == TyVars \cup TyForAlls \cup TyLists

\* The pairs handed to unify: a variable against any term (two variables
\* in the order of their keys), and an application against an application.
TyPairs ==
    {p \in TyTerms \X TyTerms :
        \/ p[1].tag = "Var" /\ (p[2].tag = "Var" => p[1].n < p[2].n)
        \/ p[1] = TyList(TyVar(0)) /\ p[2].tag = "List"}

LifetimeVars == {LifetimeVar(d) : d \in Keys(table.lifetime_unify)}
LifetimeForAlls == {LifetimeForAll(u) : u \in {0, limits.universe}}
Lifetimes == LifetimeVars \cup LifetimeForAlls

LifetimePairs == {p \in Lifetimes \X Lifetimes : p[1].tag = "Var"}

Created(key, ui) == [key |-> key, ui |-> ui]

(***************************************************************************)
(* Variable creation.                                                      *)
(***************************************************************************)
NewVariable(ui) ==
    LET r == new_variable(table, ui) IN
    /\ Len(table.ty_vars) < limits.ty_vars
    /\ Fits(r.table)
    /\ table' = r.table
    /\ plain' = new_variable(plain, ui).table
    /\ live' = [live EXCEPT !.Ty = Append(@, Created(r.var, ui))]
    /\ returned' = [returned EXCEPT !.Ty = @ \cup {r.var}]
    /\ hist' = Hist("new_variable", <<ui>>, r.var, table)
    /\ UNCHANGED <<frames, limits, fork>>

NewLifetimeVariable(ui) ==
    LET r == new_lifetime_variable(table, ui) IN
    /\ Len(table.lifetime_vars) < limits.lifetime_vars
    /\ Fits(r.table)
    /\ table' = r.table
    /\ plain' = new_lifetime_variable(plain, ui).table
    /\ live' = [live EXCEPT !.Lifetime = Append(@, Created(r.var, ui))]
    /\ returned' = [returned EXCEPT !.Lifetime = @ \cup {r.var}]
    /\ hist' = Hist("new_lifetime_variable", <<ui>>, r.var, table)
    /\ UNCHANGED <<frames, limits, fork>>

NewParameterVariable(ui) ==
    LET r == new_parameter_variable(table, ui) IN
    /\ ui.kind = "Ty" => Len(table.ty_vars) < limits.ty_vars
    /\ ui.kind = "Lifetime" => Len(table.lifetime_vars) < limits.lifetime_vars
    /\ Fits(r.table)
    /\ table' = r.table
    /\ plain' = new_parameter_variable(plain, ui).table
    /\ live' = [live EXCEPT ![r.var.kind] = Append(@, Created(r.var.val, ui.val))]
    /\ returned' = [returned EXCEPT ![r.var.kind] = @ \cup {r.var.val}]
    /\ hist' = Hist("new_parameter_variable", <<ui>>, r.var, table)
    /\ UNCHANGED <<frames, limits, fork>>

(***************************************************************************)
(* Snapshots.  A frame keeps the InferenceSnapshot, and with it what the   *)
(* table looked like when it was taken and how many creations were live.   *)
(***************************************************************************)
Frame(kind, snap, plain_snap) ==
    [kind |-> kind, snapshot |-> snap, plain_snapshot |-> plain_snap,
     saved |-> Obs(table),
     mark |-> [Ty |-> Len(live.Ty), Lifetime |-> Len(live.Lifetime)]]

\* The frame pushed by a snapshot of the table; the second table takes the
\* snapshot too unless it is the outermost one.
Push(kind) ==
    LET r == snapshot(table)
        q == snapshot(plain) IN
    /\ Len(frames) < limits.open
    /\ Fits(r.table)
    /\ table' = r.table
    /\ IF frames = <<>>
       THEN /\ plain' = plain
            /\ frames' = Append(frames, Frame(kind, r.snapshot, None))
       ELSE /\ plain' = q.table
            /\ frames' = Append(frames, Frame(kind, r.snapshot, Some(q.snapshot)))
    /\ UNCHANGED <<live, returned, limits, fork>>

\* The top frame is popped and the table becomes t.  When the snapshot was
\* rolled back, the creations made since are no longer live, and the second
\* table rolls back too; having never taken the outermost snapshot, it
\* starts again from t when that one is rolled back.
Pop(t, rolled_back) ==
    /\ table' = t
    /\ frames' = SubSeq(frames, 1, Len(frames) - 1)
    /\ IF rolled_back
       THEN /\ plain' = IF Top.plain_snapshot.some
                        THEN rollback_to(plain, Top.plain_snapshot.val)
                        ELSE t
            /\ live' = [kind \in {"Ty", "Lifetime"} |->
                           SubSeq(live[kind], 1, Top.mark[kind])]
       ELSE /\ plain' = IF Top.plain_snapshot.some
                        THEN commit(plain, Top.plain_snapshot.val)
                        ELSE plain
            /\ live' = live
    /\ UNCHANGED <<returned, limits, fork>>

TakeSnapshot ==
    /\ Push("snapshot")
    /\ hist' = Hist("snapshot", <<>>, None, table)

RollbackTo ==
    /\ frames # <<>>
    /\ Top.kind = "snapshot"
    /\ Pop(rollback_to(table, Top.snapshot), TRUE)
    /\ hist' = Hist("rollback_to", <<Top>>, None, table)

Commit ==
    /\ frames # <<>>
    /\ Top.kind = "snapshot"
    /\ Pop(commit(table, Top.snapshot), FALSE)
    /\ hist' = Hist("commit", <<Top>>, None, table)

(***************************************************************************)
(* commit_if_ok(op): the call takes the snapshot and enters op; op is any  *)
(* sequence of operations on the table; when op returns, its result        *)
(* decides between commit and rollback_to and is handed on.                *)
(***************************************************************************)
OpResults == {Ok("unified"), Err("universe"), Err("mismatch")}

CommitIfOkCall ==
    /\ Push("commit_if_ok")
    /\ hist' = Hist("commit_if_ok_call", <<>>, None, table)

CommitIfOkReturn(result) ==
    LET r == commit_if_ok(table, Top.snapshot, result) IN
    /\ frames # <<>>
    /\ Top.kind = "commit_if_ok"
    /\ Pop(r.table, ~result.ok)
    /\ hist' = Hist("commit_if_ok", <<Top, result>>, r.ret, table)

(***************************************************************************)
(* Unification of two terms of the table's frame.                          *)
(***************************************************************************)
UnifyTy(a, b) ==
    LET r == unify_ty_ty(table, a, b) IN
    /\ Fits(r.table)
    /\ table' = r.table
    /\ plain' = unify_ty_ty(plain, a, b).table
    /\ hist' = Hist("unify", <<a, b>>, r.ret, table)
    /\ UNCHANGED <<frames, live, returned, limits, fork>>

UnifyLifetime(a, b) ==
    LET r == unify_lifetime_lifetime(table, a, b) IN
    /\ Fits(r.table)
    /\ table' = r.table
    /\ plain' = unify_lifetime_lifetime(plain, a, b).table
    /\ hist' = Hist("unify_lifetime", <<a, b>>, r.ret, table)
    /\ UNCHANGED <<frames, live, returned, limits, fork>>

(***************************************************************************)
(* Queries.  They take the table mutably: finding a root compresses paths. *)
(***************************************************************************)
ProbeVar(var) ==
    LET r == probe_var(table, var) IN
    /\ Fits(r.table)
    /\ table' = r.table
    /\ plain' = probe_var(plain, var).table
    /\ hist' = Hist("probe_var", <<var>>, r.ret, table)
    /\ UNCHANGED <<frames, live, returned, limits, fork>>

ProbeLifetimeVar(var) ==
    LET r == probe_lifetime_var(table, var) IN
    /\ Fits(r.table)
    /\ table' = r.table
    /\ plain' = probe_lifetime_var(plain, var).table
    /\ hist' = Hist("probe_lifetime_var", <<var>>, r.ret, table)
    /\ UNCHANGED <<frames, live, returned, limits, fork>>

\* The leaves normalize_shallow is called on under a number of binders: a
\* variable bound inside the term, a variable of the table seen through
\* the binders, a placeholder.
ShallowLeaves(binders) ==
    {TyVar(d) : d \in {0} \cap (0 .. binders - 1)}
        \cup {TyVar(d + binders) : d \in Keys(table.ty_unify)}
        \cup {TyForAll(0)}

NormalizeShallow(leaf, binders) ==
    LET r == normalize_shallow(table, leaf, binders) IN
    /\ Fits(r.table)
    /\ table' = r.table
    /\ plain' = normalize_shallow(plain, leaf, binders).table
    /\ hist' = Hist("normalize_shallow", <<leaf, binders>>, r.ret, table)
    /\ UNCHANGED <<frames, live, returned, limits, fork>>

NormalizeLifetime(leaf) ==
    LET r == normalize_lifetime(table, leaf) IN
    /\ Fits(r.table)
    /\ table' = r.table
    /\ plain' = normalize_lifetime(plain, leaf).table
    /\ hist' = Hist("normalize_lifetime", <<leaf>>, r.ret, table)
    /\ UNCHANGED <<frames, live, returned, limits, fork>>

\* The substitutions is_trivial_within is asked about: their entries are
\* variables of the table and a placeholder.
SeqsUpTo(S, n) == UNION {[1 .. m -> S] : m \in 0 .. n}

SubstTyEntries == {TyVar(d) : d \in Keys(table.ty_unify) \cap (0 .. 1)} \cup {TyForAll(0)}

SubstLifetimeEntries == LifetimeVars

Substitutions ==
    [tys : SeqsUpTo(SubstTyEntries, MaxSubstTys),
     lifetimes : SeqsUpTo(SubstLifetimeEntries, MaxSubstLifetimes)]

IsTrivialWithin(subst) ==
    LET r == is_trivial_within(subst, table) IN
    /\ Fits(r.table)
    /\ table' = r.table
    /\ plain' = is_trivial_within(subst, plain).table
    /\ hist' = Hist("is_trivial_within", <<subst>>, r.ret, table)
    /\ UNCHANGED <<frames, live, returned, limits, fork>>

(***************************************************************************)
(* The clone.  A caller that searches two branches clones the table and    *)
(* works on the two tables in turn.  The clone is a handle: it has storage *)
(* of its own, or it is a second handle on the storage of the table.       *)
(***************************************************************************)
\* The table the clone holds.
ForkTable == IF fork.own THEN fork.table ELSE table

Clone ==
    LET c == clone(table) IN
    /\ ~fork.forked
    /\ fork' = [forked |-> TRUE, own |-> c.own, table |-> c.table,
                frames |-> <<>>, seen |-> Obs(table)]
    /\ hist' = Hist("clone", <<>>, None, table)
    /\ UNCHANGED <<table, frames, live, returned, plain, limits>>

\* An operation on the clone has left it as table t with the snapshots frs
\* open: the storage of the clone is written.
ForkStep(t, frs, op, args, ret) ==
    /\ Fits(t)
    /\ IF fork.own
       THEN /\ fork' = [fork EXCEPT !.table = t, !.frames = frs, !.seen = Obs(t)]
            /\ table' = table
       ELSE /\ fork' = [fork EXCEPT !.frames = frs, !.seen = Obs(t)]
            /\ table' = t
    /\ hist' = Hist(op, args, ret, table)
    /\ UNCHANGED <<frames, live, returned, plain, limits>>

ForkNewVariable(ui) ==
    /\ fork.forked
    /\ Len(ForkTable.ty_vars) < limits.ty_vars
    /\ LET r == new_variable(ForkTable, ui) IN
       ForkStep(r.table, fork.frames, "fork.new_variable", <<ui>>, r.var)

ForkNewLifetimeVariable(ui) ==
    /\ fork.forked
    /\ Len(ForkTable.lifetime_vars) < limits.lifetime_vars
    /\ LET r == new_lifetime_variable(ForkTable, ui) IN
       ForkStep(r.table, fork.frames, "fork.new_lifetime_variable", <<ui>>, r.var)

\* The pairs handed to unify on the clone: a variable of the clone against
\* a later variable or a placeholder.
ForkTyPairs ==
    IF fork.forked
    THEN {p \in {TyVar(d) : d \in Keys(ForkTable.ty_unify)}
                  \X ({TyVar(d) : d \in Keys(ForkTable.ty_unify)} \cup TyForAlls) :
             p[2].tag = "Var" => p[1].n < p[2].n}
    ELSE {}

ForkUnifyTy(a, b) ==
    /\ fork.forked
    /\ LET r == unify_ty_ty(ForkTable, a, b) IN
       ForkStep(r.table, fork.frames, "fork.unify", <<a, b>>, r.ret)

ForkSnapshot ==
    /\ fork.forked
    /\ Len(fork.frames) < limits.open
    /\ LET r == snapshot(ForkTable) IN
       ForkStep(r.table, Append(fork.frames, r.snapshot), "fork.snapshot", <<>>, None)

ForkRollbackTo ==
    /\ fork.forked
    /\ fork.frames # <<>>
    /\ ForkStep(rollback_to(ForkTable, fork.frames[Len(fork.frames)]),
                SubSeq(fork.frames, 1, Len(fork.frames) - 1),
                "fork.rollback_to", <<>>, None)

ForkCommit ==
    /\ fork.forked
    /\ fork.frames # <<>>
    /\ ForkStep(commit(ForkTable, fork.frames[Len(fork.frames)]),
                SubSeq(fork.frames, 1, Len(fork.frames) - 1),
                "fork.commit", <<>>, None)

ForkKeys == IF fork.forked THEN Keys(ForkTable.ty_unify) ELSE {}

ForkProbeVar(var) ==
    /\ fork.forked
    /\ LET r == probe_var(ForkTable, var) IN
       ForkStep(r.table, fork.frames, "fork.probe_var", <<var>>, r.ret)

(***************************************************************************)
(* The specification.                                                      *)
(***************************************************************************)
Next ==
    \/ \E ui \in VarUniverses : NewVariable(ui)
    \/ \E ui \in VarUniverses : NewLifetimeVariable(ui)
    \/ \E kind \in {"Ty", "Lifetime"}, ui \in VarUniverses :
          NewParameterVariable(ParameterKind(kind, ui))
    \/ TakeSnapshot
    \/ RollbackTo
    \/ Commit
    \/ CommitIfOkCall
    \/ \E result \in OpResults : CommitIfOkReturn(result)
    \/ \E p \in TyPairs : UnifyTy(p[1], p[2])
    \/ \E p \in LifetimePairs : UnifyLifetime(p[1], p[2])
    \/ \E var \in Keys(table.ty_unify) : ProbeVar(var)
    \/ \E var \in Keys(table.lifetime_unify) : ProbeLifetimeVar(var)

Spec == Init /\ [][Next]_vars

(***************************************************************************)
(* The specification of the queries: the Asking caller creates and binds   *)
(* variables, takes and rolls back a snapshot, and asks.                   *)
(***************************************************************************)
InitQuery ==
    /\ table = InferenceTable_new
    /\ frames = <<>>
    /\ hist = Hist("new", <<>>, None, InferenceTable_new)
    /\ live = [Ty |-> <<>>, Lifetime |-> <<>>]
    /\ returned = [Ty |-> {}, Lifetime |-> {}]
    /\ plain = InferenceTable_new
    /\ limits = Asking
    /\ fork = NoFork

NextQuery ==
    \/ \E ui \in VarUniverses : NewVariable(ui)
    \/ \E ui \in VarUniverses : NewLifetimeVariable(ui)
    \/ TakeSnapshot
    \/ RollbackTo
    \/ \E p \in TyPairs : UnifyTy(p[1], p[2])
    \/ \E p \in LifetimePairs : UnifyLifetime(p[1], p[2])
    \/ \E var \in Keys(table.ty_unify) : ProbeVar(var)
    \/ \E var \in Keys(table.lifetime_unify) : ProbeLifetimeVar(var)
    \/ \E binders \in 0 .. MaxBinders :
          \E leaf \in ShallowLeaves(binders) : NormalizeShallow(leaf, binders)
    \/ \E leaf \in Lifetimes : NormalizeLifetime(leaf)
    \/ \E subst \in Substitutions : IsTrivialWithin(subst)

SpecQuery == InitQuery /\ [][NextQuery]_vars

(***************************************************************************)
(* The specification of the clone: the Forking caller works on the table,  *)
(* clones it at some point, and from then on works on both.                *)
(***************************************************************************)
InitFork ==
    /\ table = InferenceTable_new
    /\ frames = <<>>
    /\ hist = Hist("new", <<>>, None, InferenceTable_new)
    /\ live = [Ty |-> <<>>, Lifetime |-> <<>>]
    /\ returned = [Ty |-> {}, Lifetime |-> {}]
    /\ plain = InferenceTable_new
    /\ limits = Forking
    /\ fork = NoFork

NextFork ==
    \/ \E ui \in VarUniverses : NewVariable(ui)
    \/ \E ui \in VarUniverses : NewLifetimeVariable(ui)
    \/ \E p \in TyPairs : UnifyTy(p[1], p[2])
    \/ TakeSnapshot
    \/ RollbackTo
    \/ Commit
    \/ \E var \in Keys(table.ty_unify) : ProbeVar(var)
    \/ Clone
    \/ \E ui \in VarUniverses : ForkNewVariable(ui)
    \/ \E ui \in VarUniverses : ForkNewLifetimeVariable(ui)
    \/ \E p \in ForkTyPairs : ForkUnifyTy(p[1], p[2])
    \/ ForkSnapshot
    \/ ForkRollbackTo
    \/ ForkCommit
    \/ \E var \in ForkKeys : ForkProbeVar(var)

SpecFork == InitFork /\ [][NextFork]_vars

(***************************************************************************)
(* Properties.                                                             *)
(***************************************************************************)
\* The frame the last operation popped, and the result op returned to the
\* commit_if_ok that has just returned.
Popped == hist.args[1]
OpResult == hist.args[2]

\* The keys of a list.
Elems(list) == {list[i] : i \in DOMAIN list}

\* Some variable bound in table t is unbound or missing in table u.
SomeBindingUndone(t, u) ==
    \/ \E k \in Keys(t.ty_unify) :
          /\ Probe(t.ty_unify, k).some
          /\ k \in Keys(u.ty_unify) => ~Probe(u.ty_unify, k).some
    \/ \E k \in Keys(t.lifetime_unify) :
          /\ Probe(t.lifetime_unify, k).some
          /\ k \in Keys(u.lifetime_unify) => ~Probe(u.lifetime_unify, k).some

\* C1: rollback is exact.  After rollback_to, the lists, the key counts of
\* both stores and the probe result (and class) of every variable are
\* those the table had when the snapshot was taken, whatever creations and
\* bindings were made since.
RollbackIsExact ==
    hist.op = "rollback_to" => Obs(table) = Popped.saved

\* C1's case: the rollback discarded a variable created after the snapshot
\* and unbound a variable that existed at the snapshot and was bound after.
RollbackUndidWork ==
    /\ hist.op = "rollback_to"
    /\ ut_len(hist.pre.ty_unify) > ut_len(table.ty_unify)
    /\ \E k \in Keys(table.ty_unify) :
          /\ Probe(hist.pre.ty_unify, k).some
          /\ ~Probe(table.ty_unify, k).some

\* C2: commit_if_ok is atomic on failure.  When op returns Err, the table
\* after commit_if_ok is the table before the call, as far as lists, key
\* counts and probes can tell, and commit_if_ok returns that Err.
CommitIfOkFailureIsAtomic ==
    (hist.op = "commit_if_ok" /\ ~OpResult.ok) =>
        /\ Obs(table) = Popped.saved
        /\ hist.ret = OpResult

\* C2's case: op created a variable and bound a variable, then failed.
FailedOpHadBound ==
    /\ hist.op = "commit_if_ok"
    /\ ~OpResult.ok
    /\ ut_len(hist.pre.ty_unify) + ut_len(hist.pre.lifetime_unify)
           > ut_len(table.ty_unify) + ut_len(table.lifetime_unify)
    /\ SomeBindingUndone(hist.pre, table)

\* C3: commit is transparent.  The table always looks like the second
\* table, which was given the same operations but never the outermost
\* snapshot and its commit; and commit itself changes no list, no key
\* count and no probe result.
CommitIsTransparent ==
    /\ Obs(table) = Obs(plain)
    /\ hist.op = "commit" => Obs(table) = Obs(hist.pre)

\* C3's case: the outermost snapshot was committed after variables were
\* created and bound under it.
CommittedWork ==
    /\ hist.op = "commit"
    /\ frames = <<>>
    /\ Popped.saved.ty_keys < ut_len(table.ty_unify)
    /\ \E k \in Keys(table.ty_unify) :
          /\ Probe(table.ty_unify, k).some
          /\ k \in DOMAIN Popped.saved.ty => ~Popped.saved.ty[k].probe.some

\* C4: commit_if_ok on success.  When op returns Ok(v), commit_if_ok
\* returns Ok(v) and the table is the one op left: the lists and the
\* contents of both stores are untouched, so nothing was rolled back.
CommitIfOkSuccessKeeps ==
    (hist.op = "commit_if_ok" /\ OpResult.ok) =>
        /\ hist.ret = OpResult
        /\ Obs(table) = Obs(hist.pre)
        /\ table.ty_vars = hist.pre.ty_vars
        /\ table.lifetime_vars = hist.pre.lifetime_vars
        /\ table.ty_unify.values = hist.pre.ty_unify.values
        /\ table.lifetime_unify.values = hist.pre.lifetime_unify.values

\* C4's case: op created a variable and bound one, then succeeded.
SucceededOpHadBound ==
    /\ hist.op = "commit_if_ok"
    /\ OpResult.ok
    /\ Popped.saved.ty_keys + Popped.saved.lifetime_keys
           < ut_len(table.ty_unify) + ut_len(table.lifetime_unify)
    /\ \E k \in Keys(table.ty_unify) :
          /\ Probe(table.ty_unify, k).some
          /\ k \in DOMAIN Popped.saved.ty => ~Popped.saved.ty[k].probe.some

\* C5: in every reachable state each list is as long as its store has
\* keys.
ListsMatchStores ==
    /\ Len(ty_vars(table)) = ut_len(table.ty_unify)
    /\ Len(lifetime_vars(table)) = ut_len(table.lifetime_unify)

\* C5's case: a rollback has shortened both a list and its store, which
\* still hold variables, while an outer snapshot is open.
ShortenedUnderSnapshot ==
    /\ hist.op \in {"rollback_to", "commit_if_ok"}
    /\ frames # <<>>
    /\ Len(hist.pre.ty_vars) > Len(table.ty_vars)
    /\ Len(table.ty_vars) > 0
    /\ Len(table.lifetime_vars) > 0

\* C6 as stated: every key ever returned by a creation is in the list of
\* its kind, once, in every reachable state.
EveryReturnedKeyListed ==
    /\ \A k \in returned.Ty :
          Cardinality({i \in DOMAIN table.ty_vars : table.ty_vars[i] = k}) = 1
    /\ \A k \in returned.Lifetime :
          Cardinality({i \in DOMAIN table.lifetime_vars :
                          table.lifetime_vars[i] = k}) = 1

\* C6 as amended: the keys returned by the creations that no rollback has
\* undone are in the list of their kind, each once, in creation order, and
\* the list holds nothing else.
LiveKeysListedInOrder ==
    /\ table.ty_vars = [i \in DOMAIN live.Ty |-> live.Ty[i].key]
    /\ table.lifetime_vars = [i \in DOMAIN live.Lifetime |-> live.Lifetime[i].key]
    /\ Cardinality(Elems(table.ty_vars)) = Len(table.ty_vars)
    /\ Cardinality(Elems(table.lifetime_vars)) = Len(table.lifetime_vars)
    /\ Elems(table.ty_vars) \subseteq returned.Ty
    /\ Elems(table.lifetime_vars) \subseteq returned.Lifetime

\* C6's case: a rollback has discarded a returned key and kept an earlier
\* one.
DiscardedAndKept ==
    /\ hist.op = "rollback_to"
    /\ Len(table.ty_vars) > 0
    /\ ~(returned.Ty \subseteq Elems(table.ty_vars))

\* What normalize_shallow owes for a leaf that is no variable, or a
\* variable at depth d >= binders: nothing for the former; for the latter
\* the value of inference variable d - binders shifted up by binders, or
\* nothing while that variable is unbound.
ShallowOwed(t, leaf, binders) ==
    IF leaf.tag # "Var" THEN None
    ELSE LET x == RootValue(t.ty_unify, leaf.n - binders) IN
         IF x.bound THEN Some(up_shift(x.val, binders)) ELSE None

\* C7: shift correctness of normalize_shallow, for the call just made and
\* for every call that could be made now.
ShallowShiftCorrect ==
    /\ (/\ hist.op = "normalize_shallow"
        /\ hist.args[1].tag = "Var" => hist.args[1].n >= hist.args[2])
           => hist.ret = ShallowOwed(hist.pre, hist.args[1], hist.args[2])
    /\ \A binders \in 0 .. MaxBinders :
          \A leaf \in {TyVar(d + binders) : d \in Keys(table.ty_unify)}
                         \cup {TyForAll(0), TyList(TyVar(0))} :
             normalize_shallow(table, leaf, binders).ret
                 = ShallowOwed(table, leaf, binders)

\* C7's case: under at least one binder, a variable bound to a term that
\* names a variable was resolved, and the result is not the stored term.
ShallowShifted ==
    /\ hist.op = "normalize_shallow"
    /\ hist.args[2] >= 1
    /\ hist.args[1].tag = "Var"
    /\ hist.args[1].n >= hist.args[2]
    /\ hist.ret.some
    /\ hist.ret.val # RootValue(hist.pre.ty_unify, hist.args[1].n - hist.args[2]).val

\* An entry of a substitution is a variable that is bound in the table.
BoundTyEntry(t, ty) == ty.tag = "Var" /\ Probe(t.ty_unify, ty.n).some
BoundLifetimeEntry(t, lt) == lt.tag = "Var" /\ Probe(t.lifetime_unify, lt.n).some

\* No entry of the substitution is a variable bound in the table.
NoBoundEntry(t, subst) ==
    /\ \A i \in DOMAIN subst.tys : ~BoundTyEntry(t, subst.tys[i])
    /\ \A i \in DOMAIN subst.lifetimes : ~BoundLifetimeEntry(t, subst.lifetimes[i])

\* C8: is_trivial_within returns true exactly when every type entry and
\* every lifetime entry is no variable or a variable still unbound, for the
\* call just made and for every call that could be made now.
TrivialExactlyWhenNothingBound ==
    /\ hist.op = "is_trivial_within"
           => hist.ret = Value(NoBoundEntry(hist.pre, hist.args[1]))
    /\ \A subst \in Substitutions :
          is_trivial_within(subst, table).ret = Value(NoBoundEntry(table, subst))

\* C8's case: the answer was false for a substitution whose type entries
\* are a placeholder and an unbound variable and whose lifetime entry is a
\* bound variable.
TrivialRefusedForLifetime ==
    /\ hist.op = "is_trivial_within"
    /\ hist.ret = Value(FALSE)
    /\ Len(hist.args[1].tys) = 2
    /\ \E i \in DOMAIN hist.args[1].tys : hist.args[1].tys[i].tag = "Var"
    /\ \E i \in DOMAIN hist.args[1].tys : hist.args[1].tys[i].tag # "Var"
    /\ \A i \in DOMAIN hist.args[1].tys : ~BoundTyEntry(hist.pre, hist.args[1].tys[i])
    /\ \E i \in DOMAIN hist.args[1].lifetimes :
          BoundLifetimeEntry(hist.pre, hist.args[1].lifetimes[i])

\* What a creation in store s' out of store s owes: the key is new to the
\* list, it is the last element of the list after, it is Unbound(ui) and
\* probes to nothing, and every variable there was probes as before.
CreatedFresh(s, list, s2, list2, key, ui) ==
    /\ key \notin Elems(list)
    /\ list2 = Append(list, key)
    /\ key \in Keys(s2)
    /\ RootValue(s2, key) = Unbound(ui)
    /\ Probe(s2, key) = None
    /\ \A j \in Keys(s) : Probe(s2, j) = Probe(s, j)

\* C9: new_variable(u) and new_lifetime_variable(u) return a key not in
\* the list, in state Unbound(u), which becomes the last element of the
\* list; the earlier elements and every existing probe result stay.
CreationIsFresh ==
    /\ hist.op = "new_variable" =>
          /\ CreatedFresh(hist.pre.ty_unify, hist.pre.ty_vars,
                          table.ty_unify, table.ty_vars, hist.ret, hist.args[1])
          /\ \A j \in Keys(hist.pre.lifetime_unify) :
                Probe(table.lifetime_unify, j) = Probe(hist.pre.lifetime_unify, j)
    /\ hist.op = "new_lifetime_variable" =>
          /\ CreatedFresh(hist.pre.lifetime_unify, hist.pre.lifetime_vars,
                          table.lifetime_unify, table.lifetime_vars,
                          hist.ret, hist.args[1])
          /\ \A j \in Keys(hist.pre.ty_unify) :
                Probe(table.ty_unify, j) = Probe(hist.pre.ty_unify, j)

\* C9's case: a type variable was created under an open snapshot in a table
\* that held a bound variable, next to another variable that is still listed.
CreatedAmongBound ==
    /\ hist.op = "new_variable"
    /\ frames # <<>>
    /\ \E j \in Keys(hist.pre.ty_unify) : Probe(hist.pre.ty_unify, j).some
    /\ \E i \in DOMAIN live.Ty : i < Len(live.Ty) /\ live.Ty[i].key # hist.ret

\* The universes of the placeholders a term names.
RECURSIVE TyPlaceholders(_)
TyPlaceholders(ty) ==
    CASE ty.tag = "ForAll" -> {ty.n}
      [] ty.tag = "Var" -> {}
      [] OTHER -> TyPlaceholders(ty.args[1])

\* The variable with this key, created in universe ui and still unbound,
\* was unified with a term that names a placeholder of a universe beyond ui.
EscapeAttempted(key, ui) ==
    /\ hist.op = "unify"
    /\ ~Probe(hist.pre.ty_unify, key).some
    /\ \/ hist.args[1] = TyVar(key) /\ \E n \in TyPlaceholders(hist.args[2]) : ui < n
       \/ hist.args[2] = TyVar(key) /\ \E n \in TyPlaceholders(hist.args[1]) : ui < n

\* C10: universe escape is rejected.  Unifying an unbound variable created
\* in universe 1 (in any universe) with a term that names a placeholder of
\* universe 2 (of any universe beyond) fails with a universe violation and
\* leaves the variable unbound.
UniverseEscapeRejected ==
    \A i \in DOMAIN live.Ty :
        EscapeAttempted(live.Ty[i].key, live.Ty[i].ui) =>
            /\ hist.ret = Err("universe")
            /\ Probe(table.ty_unify, live.Ty[i].key) = None

\* C10's case: a variable created in universe 1 met a placeholder of
\* universe 2.
EscapeFromOneToTwo ==
    \E i \in DOMAIN live.Ty :
        /\ live.Ty[i].ui = 1
        /\ EscapeAttempted(live.Ty[i].key, 1)
        /\ 2 \in TyPlaceholders(hist.args[1]) \cup TyPlaceholders(hist.args[2])
        /\ hist.ret = Err("universe")

\* C11: bound-variable threshold of normalize_shallow.  For a variable leaf
\* Var(d) under b binders with d < b the call returns nothing and leaves the
\* table as it is, whatever the table holds: for the call just made and for
\* every such call that could be made now, also with d beyond the keys.
ShallowThreshold ==
    /\ (/\ hist.op = "normalize_shallow"
        /\ hist.args[1].tag = "Var"
        /\ hist.args[1].n < hist.args[2])
           => hist.ret = None /\ table = hist.pre
    /\ \A binders \in 0 .. MaxBinders + 1 :
          \A d \in 0 .. binders - 1 :
             normalize_shallow(table, TyVar(d), binders)
                 = [table |-> table, ret |-> None]

\* C11's case: Var(0) was asked about under a binder while inference
\* variable 0 was bound, and while some variable was not its own root, so
\* that a lookup would have changed the store.
ShallowBelowThresholdWhileBound ==
    /\ hist.op = "normalize_shallow"
    /\ hist.args[1] = TyVar(0)
    /\ hist.args[2] >= 1
    /\ 0 \in Keys(hist.pre.ty_unify)
    /\ Probe(hist.pre.ty_unify, 0).some
    /\ \E k \in Keys(hist.pre.ty_unify) : ut_root(hist.pre.ty_unify, k) # k

\* Under the snapshot snap, table t holds work that the commit of a later
\* snapshot has kept: the commit left its mark in an undo log above snap.
KeptInnerCommit(t, snap) ==
    \/ \E i \in snap.ty_unify_snapshot.length + 2 .. Len(t.ty_unify.undo_log) :
          t.ty_unify.undo_log[i] = CommittedSnapshot
    \/ \E i \in snap.lifetime_unify_snapshot.length + 2 .. Len(t.lifetime_unify.undo_log) :
          t.lifetime_unify.undo_log[i] = CommittedSnapshot

\* The last operation rolled a snapshot back, by itself or as the failure
\* path of commit_if_ok.
RolledBack ==
    \/ hist.op = "rollback_to"
    \/ hist.op = "commit_if_ok" /\ ~hist.ret.ok

\* C12: snapshots nest.  When the outer snapshot is rolled back after an
\* inner one was committed, everything since the outer snapshot is undone,
\* what the inner commit kept included: the table is as it was at the outer
\* snapshot and only the creations made before it are live.  When an inner
\* snapshot is rolled back while an outer one stays open, the table is as
\* it was at the inner snapshot, the creations made between the two stay
\* live, and what the outer snapshot needs for its own rollback is intact.
SnapshotsNest ==
    /\ (RolledBack /\ KeptInnerCommit(hist.pre, Popped.snapshot)) =>
          /\ Obs(table) = Popped.saved
          /\ Len(live.Ty) = Popped.mark.Ty
          /\ Len(live.Lifetime) = Popped.mark.Lifetime
    /\ (RolledBack /\ frames # <<>>) =>
          /\ Obs(table) = Popped.saved
          /\ Len(live.Ty) = Popped.mark.Ty /\ Popped.mark.Ty >= Top.mark.Ty
          /\ Len(live.Lifetime) = Popped.mark.Lifetime
          /\ Popped.mark.Lifetime >= Top.mark.Lifetime
          /\ Obs(rollback_to(table, Top.snapshot)) = Top.saved

\* C12's case: the outer snapshot was rolled back after an inner commit had
\* kept a creation and a binding.
OuterRollbackAfterInnerCommit ==
    /\ RolledBack
    /\ KeptInnerCommit(hist.pre, Popped.snapshot)
    /\ Len(hist.pre.ty_vars) > Len(table.ty_vars)
    /\ SomeBindingUndone(hist.pre, table)

\* An inner snapshot was rolled back under an outer one that had seen a
\* creation before the inner one was taken.
InnerRollbackKeepsOuterWork ==
    /\ RolledBack
    /\ frames # <<>>
    /\ Popped.mark.Ty > Top.mark.Ty
    /\ Len(hist.pre.ty_vars) > Len(table.ty_vars)

\* List a is the beginning of list b.
IsPrefix(a, b) == Len(a) <= Len(b) /\ a = SubSeq(b, 1, Len(a))

\* C13: restoring a list from the captured copy is truncation.  The lists
\* captured by every open snapshot are prefixes of the table's lists, and
\* after a rollback each list is the captured copy, which is the list
\* before the rollback cut to the captured length.
RestoreIsTruncation ==
    /\ \A i \in DOMAIN frames :
          /\ IsPrefix(frames[i].snapshot.ty_vars, table.ty_vars)
          /\ IsPrefix(frames[i].snapshot.lifetime_vars, table.lifetime_vars)
    /\ RolledBack =>
          /\ table.ty_vars = Popped.snapshot.ty_vars
          /\ table.ty_vars
                = SubSeq(hist.pre.ty_vars, 1, Len(Popped.snapshot.ty_vars))
          /\ table.lifetime_vars = Popped.snapshot.lifetime_vars
          /\ table.lifetime_vars
                = SubSeq(hist.pre.lifetime_vars, 1, Len(Popped.snapshot.lifetime_vars))

\* C13's case: a rollback cut a list to a captured copy that was not empty.
TruncatedToCaptured ==
    /\ RolledBack
    /\ Popped.snapshot.ty_vars # <<>>
    /\ Len(hist.pre.ty_vars) > Len(Popped.snapshot.ty_vars)

\* C14: new_parameter_variable keeps the kind and touches that kind's store
\* only.  Asked for a type it returns a type-kind result with a fresh type
\* variable of the universe asked for, and the lifetime list and store are
\* what they were; asked for a lifetime, the same with the kinds swapped.
ParameterKindPreserved ==
    hist.op = "new_parameter_variable" =>
        /\ hist.ret.kind = hist.args[1].kind
        /\ hist.args[1].kind = "Ty" =>
              /\ CreatedFresh(hist.pre.ty_unify, hist.pre.ty_vars,
                              table.ty_unify, table.ty_vars,
                              hist.ret.val, hist.args[1].val)
              /\ lifetime_vars(table) = lifetime_vars(hist.pre)
              /\ table.lifetime_unify = hist.pre.lifetime_unify
        /\ hist.args[1].kind = "Lifetime" =>
              /\ CreatedFresh(hist.pre.lifetime_unify, hist.pre.lifetime_vars,
                              table.lifetime_unify, table.lifetime_vars,
                              hist.ret.val, hist.args[1].val)
              /\ ty_vars(table) = ty_vars(hist.pre)
              /\ table.ty_unify = hist.pre.ty_unify

\* C14's case: a lifetime was asked for in a universe other than 0, in a
\* table that held a bound type variable and a lifetime variable.
LifetimeParameterCreated ==
    /\ hist.op = "new_parameter_variable"
    /\ hist.args[1] = ParameterKind("Lifetime", 1)
    /\ hist.ret.kind = "Lifetime"
    /\ \E k \in Keys(hist.pre.ty_unify) : Probe(hist.pre.ty_unify, k).some

\* The snapshots open in a store: the OpenSnapshot entries of its undo log.
OpenCount(s) == Cardinality({i \in DOMAIN s.undo_log : s.undo_log[i] = OpenSnapshot})

\* The snapshot taken at log position n is no longer open in store s.
Consumed(s, n) == Len(s.undo_log) > n => s.undo_log[n + 1] # OpenSnapshot

\* C15: the snapshot commit_if_ok takes is consumed exactly once before it
\* returns.  On Ok it is committed and not rolled back: nothing of the
\* stores or lists is undone.  On Err it is rolled back and not committed:
\* the logs are cut back to the snapshot and the lists are the captured
\* ones.  On both paths one snapshot fewer is open than when op returned,
\* and in every state the stores hold exactly the snapshots not yet
\* consumed, so that as many are open at the return as were at the call,
\* also for a commit_if_ok inside a commit_if_ok.
CommitIfOkConsumesOnce ==
    /\ OpenCount(table.ty_unify) = Len(frames)
    /\ OpenCount(table.lifetime_unify) = Len(frames)
    /\ hist.op = "commit_if_ok" =>
          /\ OpenCount(table.ty_unify) = OpenCount(hist.pre.ty_unify) - 1
          /\ OpenCount(table.lifetime_unify) = OpenCount(hist.pre.lifetime_unify) - 1
          /\ Consumed(table.ty_unify, Popped.snapshot.ty_unify_snapshot.length)
          /\ Consumed(table.lifetime_unify,
                      Popped.snapshot.lifetime_unify_snapshot.length)
          /\ hist.ret.ok = OpResult.ok
          /\ OpResult.ok =>
                /\ table.ty_unify.values = hist.pre.ty_unify.values
                /\ table.lifetime_unify.values = hist.pre.lifetime_unify.values
                /\ table.ty_vars = hist.pre.ty_vars
                /\ table.lifetime_vars = hist.pre.lifetime_vars
          /\ ~OpResult.ok =>
                /\ table.ty_unify.undo_log
                      = SubSeq(hist.pre.ty_unify.undo_log, 1,
                               Popped.snapshot.ty_unify_snapshot.length)
                /\ table.lifetime_unify.undo_log
                      = SubSeq(hist.pre.lifetime_unify.undo_log, 1,
                               Popped.snapshot.lifetime_unify_snapshot.length)
                /\ table.ty_vars = Popped.snapshot.ty_vars
                /\ table.lifetime_vars = Popped.snapshot.lifetime_vars

\* C15's case: a commit_if_ok inside a commit_if_ok returned an error after
\* its op had created a variable, and the enclosing one is still running.
NestedCommitIfOkFailed ==
    /\ hist.op = "commit_if_ok"
    /\ ~hist.ret.ok
    /\ frames # <<>>
    /\ Top.kind = "commit_if_ok"
    /\ Len(hist.pre.ty_vars) > Len(Popped.snapshot.ty_vars)

\* A commit_if_ok inside a commit_if_ok returned Ok and kept a creation.
NestedCommitIfOkSucceeded ==
    /\ hist.op = "commit_if_ok"
    /\ hist.ret.ok
    /\ frames # <<>>
    /\ Top.kind = "commit_if_ok"
    /\ Len(table.ty_vars) > Len(Popped.snapshot.ty_vars)

\* A list holds, at each position, the key with the index of the position.
Dense(list) == \A i \in DOMAIN list : list[i] = from_depth(i - 1)

\* The entry of key in store s is that of a variable just made in universe
\* ui: its own root, unbound in ui, of rank 0, and no other key leads to it.
Pristine(s, key, ui) ==
    /\ s.values[key + 1] = VarValue(key, Unbound(ui), 0)
    /\ \A j \in Keys(s) : j # key => ut_root(s, j) # key

\* Both lists are dense, and a creation returns the key whose index is the
\* length of the list, with a pristine entry.
DenseKeys ==
    /\ Dense(table.ty_vars) /\ Len(table.ty_vars) = ut_len(table.ty_unify)
    /\ Dense(table.lifetime_vars)
    /\ Len(table.lifetime_vars) = ut_len(table.lifetime_unify)
    /\ hist.op = "new_variable" =>
          /\ hist.ret = from_depth(Len(hist.pre.ty_vars))
          /\ Pristine(table.ty_unify, hist.ret, hist.args[1])
    /\ hist.op = "new_lifetime_variable" =>
          /\ hist.ret = from_depth(Len(hist.pre.lifetime_vars))
          /\ Pristine(table.lifetime_unify, hist.ret, hist.args[1])

\* A creation that follows a rollback at once returns the key of the first
\* variable the rollback discarded, if it discarded one of that kind.
ReusedAfterRollback ==
    /\ (/\ RolledBack
        /\ Len(hist.pre.ty_vars) > Len(table.ty_vars)
        /\ hist'.op = "new_variable")
           => /\ hist'.ret = hist.pre.ty_vars[Len(table.ty_vars) + 1]
              /\ Pristine(table'.ty_unify, hist'.ret, hist'.args[1])
    /\ (/\ RolledBack
        /\ Len(hist.pre.lifetime_vars) > Len(table.lifetime_vars)
        /\ hist'.op = "new_lifetime_variable")
           => /\ hist'.ret = hist.pre.lifetime_vars[Len(table.lifetime_vars) + 1]
              /\ Pristine(table'.lifetime_unify, hist'.ret, hist'.args[1])

\* C16: keys are dense and reused after rollback.  In every state the i-th
\* element of each list is the key with index i; the first creation after a
\* rollback returns the key of the first variable the rollback discarded,
\* and that key is Unbound(u) with nothing left of the discarded variable.
KeysDenseAndReused == []DenseKeys /\ [][ReusedAfterRollback]_vars

\* C16's case: new_variable returned a key that an earlier creation had
\* returned for a variable since discarded: more keys have been returned
\* than the list holds.
KeyReused ==
    /\ hist.op = "new_variable"
    /\ hist.ret \in Elems(table.ty_vars)
    /\ Cardinality(returned.Ty) > Len(table.ty_vars)

\* C17: with no binders normalize_shallow is probe_var.  For every type
\* variable d of the table, normalize_shallow(Var(d), 0) and
\* probe_var(from_depth(d)) return the same and leave the same table; and
\* the call of either just made returned what the other would have.
ShallowAtZeroIsProbe ==
    /\ \A d \in Keys(table.ty_unify) :
          normalize_shallow(table, TyVar(d), 0) = probe_var(table, from_depth(d))
    /\ (/\ hist.op = "normalize_shallow"
        /\ hist.args[2] = 0
        /\ hist.args[1].tag = "Var")
           => hist.ret = probe_var(hist.pre, from_depth(hist.args[1].n)).ret
    /\ hist.op = "probe_var"
           => hist.ret = normalize_shallow(hist.pre, TyVar(hist.args[1]), 0).ret

\* C17's case: normalize_shallow under no binders resolved a variable bound
\* to a term that names a variable, which a shift would have changed.
ShallowAtZeroResolved ==
    /\ hist.op = "normalize_shallow"
    /\ hist.args[2] = 0
    /\ hist.ret.some
    /\ hist.ret.val.tag = "List"
    /\ hist.ret.val.args[1].tag = "Var"

\* The tables the queries can leave when asked of table t: probe_var and
\* probe_lifetime_var of every key, normalize_shallow of every variable
\* under every number of binders, normalize_lifetime of every variable,
\* is_trivial_within of every substitution over the variables.
QueryTables(t) ==
    {probe_var(t, v).table : v \in Keys(t.ty_unify)}
        \cup {probe_lifetime_var(t, v).table : v \in Keys(t.lifetime_unify)}
        \cup {normalize_shallow(t, TyVar(d + b), b).table :
                 d \in Keys(t.ty_unify), b \in 0 .. MaxBinders}
        \cup {normalize_lifetime(t, LifetimeVar(d)).table :
                 d \in Keys(t.lifetime_unify)}
        \cup {is_trivial_within(subst, t).table :
                 subst \in [tys : SeqsUpTo({TyVar(d) : d \in Keys(t.ty_unify)},
                                           MaxSubstTys),
                            lifetimes : SeqsUpTo({LifetimeVar(d) :
                                                     d \in Keys(t.lifetime_unify)},
                                                 MaxSubstLifetimes)]}

\* C18: the queries are read-only to an observer.  probe_var,
\* probe_lifetime_var, normalize_shallow, is_trivial_within and snapshot
\* leave both lists and, for every variable, whether it is bound, its value
\* and its universe as they were: for the query just made and for every
\* query that could be made now.  A query made now changes no later probe
\* result and not what a rollback of the innermost open snapshot leaves.
QueriesReadOnly ==
    /\ hist.op \in {"probe_var", "probe_lifetime_var", "normalize_shallow",
                    "is_trivial_within", "snapshot"}
           => Obs(table) = Obs(hist.pre)
    /\ Obs(snapshot(table).table) = Obs(table)
    /\ \A t \in QueryTables(table) :
          /\ Obs(t) = Obs(table)
          /\ \A k \in Keys(table.ty_unify) :
                probe_var(t, k).ret = probe_var(table, k).ret
          /\ \A k \in Keys(table.lifetime_unify) :
                probe_lifetime_var(t, k).ret = probe_lifetime_var(table, k).ret
          /\ frames # <<>> =>
                Obs(rollback_to(t, Top.snapshot))
                    = Obs(rollback_to(table, Top.snapshot))

\* C18's case: under an open snapshot probe_var compressed a path, and so
\* wrote to the store, for a variable that is bound.
ProbeCompressedPath ==
    /\ hist.op = "probe_var"
    /\ frames # <<>>
    /\ hist.ret.some
    /\ table.ty_unify.values # hist.pre.ty_unify.values

\* The operations made on the clone.
ForkOps ==
    {"fork.new_variable", "fork.new_lifetime_variable", "fork.unify",
     "fork.snapshot", "fork.rollback_to", "fork.commit", "fork.probe_var"}

\* C19: forked tables are independent.  What the clone shows (its lists and
\* every probe result) is what it showed when it was made or last worked
\* on, whatever has been done to the original since; and an operation on
\* the clone leaves what the original shows, and the original itself, as
\* it was.
ForksIndependent ==
    /\ fork.forked => Obs(ForkTable) = fork.seen
    /\ hist.op = "clone" => Obs(ForkTable) = Obs(table) /\ table = hist.pre
    /\ hist.op \in ForkOps => Obs(table) = Obs(hist.pre) /\ table = hist.pre

\* C19's case: a unification on the clone bound a variable that the
\* original holds unbound, while the original had a snapshot open and the
\* two tables held different numbers of lifetime variables.
ForkDiverged ==
    /\ fork.forked
    /\ hist.op = "fork.unify"
    /\ hist.ret = Ok("unified")
    /\ frames # <<>>
    /\ \E k \in Keys(ForkTable.ty_unify) \cap Keys(table.ty_unify) :
          Probe(ForkTable.ty_unify, k).some /\ ~Probe(table.ty_unify, k).some
    /\ Len(ForkTable.lifetime_vars) # Len(table.lifetime_vars)

\* The original was rolled back after the clone was made, to a snapshot
\* taken before; the clone keeps a variable the original has lost.
OriginalRolledBackUnderFork ==
    /\ fork.forked
    /\ hist.op = "rollback_to"
    /\ Len(ForkTable.ty_vars) > Len(table.ty_vars)
    /\ Len(hist.pre.ty_vars) > Len(table.ty_vars)

\* A lifetime moved under a number of binders.
lifetime_up_shift(lt, adjustment) ==
    IF lt.tag = "Var" THEN LifetimeVar(lt.n + adjustment) ELSE lt

\* What a normalization that keeps the binder depth owes for a lifetime
\* leaf that occurs under a number of binders: nothing for a placeholder
\* and for a variable bound by one of the binders; for Var(v) beyond them
\* the binding of lifetime inference variable v - binders, moved under the
\* binders, or nothing while it is unbound.
LifetimeOwed(t, leaf, binders) ==
    IF leaf.tag # "Var" THEN None
    ELSE IF leaf.n < binders THEN None
    ELSE LET x == RootValue(t.lifetime_unify, leaf.n - binders) IN
         IF x.bound THEN Some(lifetime_up_shift(x.val, binders)) ELSE None

LifetimeNormalizedAtDepthZero ==
    hist.op = "normalize_lifetime" =>
        /\ hist.ret = LifetimeOwed(hist.pre, hist.args[1], 0)
        /\ hist.args[1].tag = "Var" =>
              hist.ret = probe_lifetime_var(hist.pre, from_depth(hist.args[1].n)).ret

=============================================================================
